---------------------------- MODULE Spec2Model ----------------------------
(***************************************************************************)
(* A model of gbdt_numba.py: exact greedy tree construction on gradient    *)
(* and hessian statistics (leaf_score, leaf_loss, calculate_gain,          *)
(* find_threshold, find_best_split, Tree.construct_tree), and the boosting *)
(* loop around it (GBDT.fit, GBDT.predict).                                *)
(*                                                                         *)
(* Numbers.  The program computes in IEEE doubles; the model computes in   *)
(* exact rationals <<n, d>> (d > 0, lowest terms).  NaN is <<0, 0>>, the   *)
(* value numpy gives for 0.0/0.0 and for the mean of an empty array.       *)
(* Python's None is the empty tuple.  Feature indices are 0-based as in    *)
(* the program; sequences are 1-based, so column f is position f + 1.      *)
(***************************************************************************)
EXTENDS Integers, Sequences, FiniteSets

VARIABLES
    loss, max_depth, min_sample_split, reg_lambda, gamma,  \* GBDT.__init__
    learning_rate, n_estimators,
    estimators, score_start,       \* self.estimators, self.score_start
    pc,                            \* where the GBDT object's caller stands
    train, target, score, i,       \* GBDT.fit's arguments and locals
    history,                       \* per round: the g, h handed to Tree.fit
    stack, ret,                    \* construct_tree's frames, last return value
    error,                         \* the exception that ended the call, if any
    prediction,                    \* what GBDT.predict returned last
    args, result                   \* a direct call of a split function

vars == <<loss, max_depth, min_sample_split, reg_lambda, gamma, learning_rate,
          n_estimators, estimators, score_start, pc, train, target, score, i,
          history, stack, ret, error, prediction, args, result>>

gbdtVars == <<loss, max_depth, min_sample_split, reg_lambda, gamma,
              learning_rate, n_estimators, estimators, score_start, pc, train,
              target, score, i, history, stack, ret, error, prediction>>

-----------------------------------------------------------------------------
(* Bounds of the model. *)

\* rows of a sample matrix given to GBDT.fit: 0..MaxRows
MaxRows == 3
\* configured max_depth: 0..MaxDepth
MaxDepth == 2
\* configured n_estimators: 1..MaxEstimators
MaxEstimators == 2
\* length of a column given directly to a split function: 1..MaxLen
MaxLen == 3

-----------------------------------------------------------------------------
(* Values. *)

None == <<>>
NaN  == <<0, 0>>

Abs(x) == IF x < 0 THEN -x ELSE x

RECURSIVE GCD(_, _)
GCD(a, b) == IF b = 0 THEN a ELSE GCD(b, a % b)

\* the rational n/d in lowest terms; x/0 is NaN (only 0/0 arises, see leaf_score)
Rat(n, d) ==
    IF d = 0 THEN NaN
    ELSE IF d = 1 THEN <<n, 1>>
    ELSE LET k == GCD(Abs(n), Abs(d))
             s == IF d < 0 THEN -1 ELSE 1
         IN  <<(s * n) \div k, (s * d) \div k>>

R(x) == <<x, 1>>

RAdd(a, b) == Rat(a[1] * b[2] + b[1] * a[2], a[2] * b[2])
RSub(a, b) == Rat(a[1] * b[2] - b[1] * a[2], a[2] * b[2])
RMul(a, b) == Rat(a[1] * b[1], a[2] * b[2])
RDiv(a, b) == Rat(a[1] * b[2], a[2] * b[1])
RNeg(a)    == <<-a[1], a[2]>>
\* comparisons; every comparison with NaN is false
RLt(a, b)  == a[2] # 0 /\ b[2] # 0 /\ a[1] * b[2] < b[1] * a[2]
RLe(a, b)  == a[2] # 0 /\ b[2] # 0 /\ a[1] * b[2] <= b[1] * a[2]
RGt(a, b)  == RLt(b, a)

\* np.sum
RECURSIVE Sum(_)
Sum(v) == IF v = <<>> THEN R(0) ELSE RAdd(v[1], Sum(Tail(v)))

\* np.square
Square(a) == RMul(a, a)

\* the sequences of length n over S
RECURSIVE Seqs(_, _)
Seqs(S, n) == IF n = 0 THEN {<<>>}
              ELSE {Append(s, x) : s \in Seqs(S, n - 1), x \in S}

Range(v) == {v[k] : k \in 1..Len(v)}

\* v[mask], numpy's selection by a boolean mask
RECURSIVE Select(_, _)
Select(v, mask) ==
    IF v = <<>> THEN <<>>
    ELSE (IF mask[1] THEN <<v[1]>> ELSE <<>>) \o Select(Tail(v), Tail(mask))

\* ~mask
Not(mask) == [k \in 1..Len(mask) |-> ~mask[k]]

\* train[:, feature] and train.T[feature]
Column(matrix, feature) == [k \in 1..Len(matrix) |-> matrix[k][feature + 1]]

\* len(train.T): the number of feature columns
NumFeatures(matrix) == IF matrix = <<>> THEN 0 ELSE Len(matrix[1])

\* np.unique: the distinct values, ascending
RECURSIVE Ascending(_)
Ascending(S) ==
    IF S = {} THEN <<>>
    ELSE LET m == CHOOSE x \in S : \A y \in S : x <= y
         IN  <<m>> \o Ascending(S \ {m})

Unique(v) == Ascending(Range(v))

-----------------------------------------------------------------------------
(* The split evaluator. *)

leaf_score(g, h, lambda) == RDiv(RNeg(Sum(g)), RAdd(Sum(h), R(lambda)))

leaf_loss(g, h, lambda) ==
    RDiv(RMul(<<-1, 2>>, Square(Sum(g))), RAdd(Sum(h), R(lambda)))

\* the loop of calculate_gain: <<left_g, left_h, right_g, right_h>> after
\* samples k..len(feature) are added to acc
RECURSIVE GainSums(_, _, _, _, _, _)
GainSums(feature, g, h, threshold, k, acc) ==
    IF k > Len(feature) THEN acc
    ELSE GainSums(feature, g, h, threshold, k + 1,
            IF RLt(R(feature[k]), threshold)
            THEN <<RAdd(acc[1], g[k]), RAdd(acc[2], h[k]), acc[3], acc[4]>>
            ELSE <<acc[1], acc[2], RAdd(acc[3], g[k]), RAdd(acc[4], h[k])>>)

\* calculate_gain with the right group's loss added instead of subtracted
calculate_gain_sign(original_loss, feature, g, h, threshold, lambda) ==
    LET s == GainSums(feature, g, h, threshold, 1, <<R(0), R(0), R(0), R(0)>>)
        left_loss  == RDiv(RMul(<<-1, 2>>, Square(s[1])), RAdd(s[2], R(lambda)))
        right_loss == RDiv(RMul(<<-1, 2>>, Square(s[3])), RAdd(s[4], R(lambda)))
    IN  RAdd(RSub(original_loss, left_loss), right_loss)

calculate_gain(original_loss, feature, g, h, threshold, lambda) ==
    LET s == GainSums(feature, g, h, threshold, 1, <<R(0), R(0), R(0), R(0)>>)
        left_loss  == RDiv(RMul(<<-1, 2>>, Square(s[1])), RAdd(s[2], R(lambda)))
        right_loss == RDiv(RMul(<<-1, 2>>, Square(s[3])), RAdd(s[4], R(lambda)))
    IN  RSub(RSub(original_loss, left_loss), right_loss)

\* the loop of find_threshold over unq[k-1], unq[k]; best is <<threshold, best_gain>>
RECURSIVE ThresholdLoop(_, _, _, _, _, _, _, _)
ThresholdLoop(loss_, unq, g, h, column, lambda, k, best) ==
    IF k > Len(unq) THEN best
    ELSE LET this_threshold == Rat(unq[k - 1] + unq[k], 2)
             this_gain == calculate_gain(loss_, column, g, h, this_threshold, lambda)
         IN  ThresholdLoop(loss_, unq, g, h, column, lambda, k + 1,
                 IF RGt(this_gain, best[2]) THEN <<this_threshold, this_gain>>
                 ELSE best)

\* find_threshold updating on this_gain >= best_gain
RECURSIVE ThresholdLoopGe(_, _, _, _, _, _, _, _)
ThresholdLoopGe(loss_, unq, g, h, column, lambda, k, best) ==
    IF k > Len(unq) THEN best
    ELSE LET this_threshold == Rat(unq[k - 1] + unq[k], 2)
             this_gain == calculate_gain(loss_, column, g, h, this_threshold, lambda)
         IN  ThresholdLoopGe(loss_, unq, g, h, column, lambda, k + 1,
                 IF RLe(best[2], this_gain) THEN <<this_threshold, this_gain>>
                 ELSE best)

find_threshold_ge(g, h, column, lambda) ==
    ThresholdLoopGe(leaf_loss(g, h, lambda), Unique(column), g, h, column, lambda,
                    2, <<None, R(0)>>)

find_threshold(g, h, column, lambda) ==
    ThresholdLoop(leaf_loss(g, h, lambda), Unique(column), g, h, column, lambda,
                  2, <<None, R(0)>>)

\* the loop of find_best_split over the columns f..; best is <<feature, threshold, best_gain>>
RECURSIVE BestSplitLoop(_, _, _, _, _, _)
BestSplitLoop(matrix, g, h, lambda, f, best) ==
    IF f >= NumFeatures(matrix) THEN best
    ELSE LET this == find_threshold(g, h, Column(matrix, f), lambda)
         IN  BestSplitLoop(matrix, g, h, lambda, f + 1,
                 IF RGt(this[2], best[3]) THEN <<f, this[1], this[2]>> ELSE best)

\* find_best_split updating on this_gain >= best_gain
RECURSIVE BestSplitLoopGe(_, _, _, _, _, _)
BestSplitLoopGe(matrix, g, h, lambda, f, best) ==
    IF f >= NumFeatures(matrix) THEN best
    ELSE LET this == find_threshold(g, h, Column(matrix, f), lambda)
         IN  BestSplitLoopGe(matrix, g, h, lambda, f + 1,
                 IF RLe(best[3], this[2]) THEN <<f, this[1], this[2]>> ELSE best)

find_best_split_ge(matrix, g, h, lambda) ==
    BestSplitLoopGe(matrix, g, h, lambda, 0, <<0, None, R(0)>>)

find_best_split(matrix, g, h, lambda) ==
    BestSplitLoop(matrix, g, h, lambda, 0, <<0, None, R(0)>>)

-----------------------------------------------------------------------------
(* Direct calls of the split functions on bounded inputs. *)

ColumnValues == {0, 1, 2}
FeatureValues == {0, 1}
GValues == {-1, 1}
HValues == {1, 2}
RegLambdas == {0, 1}

Rs(v) == [k \in 1..Len(v) |-> R(v[k])]

\* one column, any gradients, any positive hessians
ColumnInput(c, gs, hs, l) ==
    [train |-> [k \in 1..Len(c) |-> <<c[k]>>], g |-> Rs(gs), h |-> Rs(hs),
     reg_lambda |-> l]

\* thresholds a caller may pass: the midpoints of two column values that lie
\* strictly inside the column's range, so that neither side of the split is empty
Thresholds(column) ==
    {t \in {Rat(a + b, 2) : a, b \in ColumnValues} :
        \E lo, hi \in Range(column) : RLt(R(lo), t) /\ RLt(t, R(hi))}

\* two columns (the second one binary), any gradients, the hessians of the
\* squared error
MatrixInput(x, gs, l) ==
    [train |-> x, g |-> Rs(gs), h |-> [k \in 1..Len(x) |-> R(1)], reg_lambda |-> l]

NoResult == [op |-> "none", feature |-> 0, threshold |-> None, gain |-> None]

CallCalculateGain(f, t) ==
    /\ result' = [op |-> "calculate_gain", feature |-> f, threshold |-> t,
                  gain |-> calculate_gain(
                      leaf_loss(args.g, args.h, args.reg_lambda),
                      Column(args.train, f), args.g, args.h, t, args.reg_lambda)]
    /\ UNCHANGED <<args, gbdtVars>>

CallFindThreshold(f) ==
    /\ LET r == find_threshold(args.g, args.h, Column(args.train, f), args.reg_lambda)
       IN  result' = [op |-> "find_threshold", feature |-> f,
                      threshold |-> r[1], gain |-> r[2]]
    /\ UNCHANGED <<args, gbdtVars>>

CallFindBestSplit ==
    /\ LET r == find_best_split(args.train, args.g, args.h, args.reg_lambda)
       IN  result' = [op |-> "find_best_split", feature |-> r[1],
                      threshold |-> r[2], gain |-> r[3]]
    /\ UNCHANGED <<args, gbdtVars>>


-----------------------------------------------------------------------------
(* The loss classes.  The strings "mse" and "log" are the names a caller    *)
(* passes; "mse()" is an instance of class mse.                             *)

IsLossObject(l) == l = "mse()"

mse_link(sc) == sc
mse_g(true, sc) == [k \in 1..Len(sc) |-> RSub(sc[k], R(true[k]))]
mse_h(true, sc) == [k \in 1..Len(sc) |-> R(1)]

-----------------------------------------------------------------------------
(* Tree. *)

TreeNode(is_leaf, sc, split_feature, split_threshold, left_child, right_child) ==
    [is_leaf |-> is_leaf, score |-> sc, split_feature |-> split_feature,
     split_threshold |-> split_threshold, left_child |-> left_child,
     right_child |-> right_child]

RECURSIVE predict_single(_, _)
predict_single(treenode, test) ==
    IF treenode.is_leaf THEN treenode.score
    ELSE IF RLt(R(test[treenode.split_feature + 1]), treenode.split_threshold)
         THEN predict_single(treenode.left_child, test)
         ELSE predict_single(treenode.right_child, test)

\* Tree.predict
tree_predict(estimator, test) ==
    [k \in 1..Len(test) |-> predict_single(estimator, test[k])]

\* line 282 without the test of max_depth
StopBeforeSearch_NoDepth(tr, depth) == Len(tr) < min_sample_split

\* line 282 with len(train) <= min_sample_split
StopBeforeSearch_Le(tr, depth) == depth = 0 \/ Len(tr) <= min_sample_split

\* construct_tree, line 282: the stopping conditions before the split search
StopBeforeSearch(tr, depth) == depth = 0 \/ Len(tr) < min_sample_split

\* line 287 with gain < gamma
StopOnGain_Lt(gain) == RLt(gain, R(gamma))

\* construct_tree, line 287: the stopping condition on the best gain
StopOnGain(gain) == RLe(gain, R(gamma))

\* construct_tree, line 290: index = train[:, feature] < threshold
SplitIndex(tr, feature, threshold) ==
    [k \in 1..Len(tr) |-> RLt(R(tr[k][feature + 1]), threshold)]

\* a frame of construct_tree: its arguments (rows: which samples of the fit's
\* matrix the rows of train are), where it stands, and its locals
Frame(tr, g, h, depth, rows) ==
    [train |-> tr, g |-> g, h |-> h, max_depth |-> depth, rows |-> rows,
     at |-> "call", feature |-> 0, threshold |-> None, gain |-> None,
     index |-> <<>>, left_child |-> None]

\* construct_tree, line 291: the arguments of the call for the left child
LeftCall(fr, index) ==
    Frame(Select(fr.train, index), Select(fr.g, index), Select(fr.h, index),
          fr.max_depth - 1, Select(fr.rows, index))

\* line 292 with g[index] in place of g[~index]
RightCall_LeftGradient(fr, index) ==
    Frame(Select(fr.train, Not(index)), Select(fr.g, index),
          Select(fr.h, Not(index)), fr.max_depth - 1, Select(fr.rows, Not(index)))

\* construct_tree, line 292: the arguments of the call for the right child
RightCall(fr, index) ==
    Frame(Select(fr.train, Not(index)), Select(fr.g, Not(index)),
          Select(fr.h, Not(index)), fr.max_depth - 1, Select(fr.rows, Not(index)))

Top == stack[Len(stack)]
Pop == SubSeq(stack, 1, Len(stack) - 1)

\* what the division of leaf_score does: a zero divisor (0.0/0.0, on no samples
\* with reg_lambda = 0) raises under numba's python error model and yields nan
\* under numpy's
LeafOutcomes(g, h, lambda) ==
    IF RAdd(Sum(h), R(lambda)) = R(0) THEN {"nan", "ZeroDivisionError"} ELSE {"value"}

Raise(e) ==
    /\ error' = e
    /\ pc' = "failed"
    /\ stack' = <<>>
    /\ ret' = <<>>

\* lines 283 and 288: return TreeNode(is_leaf=True, score=leaf_score(...))
ReturnLeaf(fr) ==
    \E o \in LeafOutcomes(fr.g, fr.h, reg_lambda) :
        IF o = "ZeroDivisionError"
        THEN Raise("ZeroDivisionError")
        ELSE /\ ret' = <<TreeNode(TRUE, leaf_score(fr.g, fr.h, reg_lambda),
                                  None, None, None, None)>>
             /\ stack' = Pop
             /\ UNCHANGED <<pc, error>>

\* construct_tree from its entry to its first return or recursive call
ConstructTree ==
    /\ pc = "tree"
    /\ stack # <<>>
    /\ Top.at = "call"
    /\ LET fr == Top IN
       IF StopBeforeSearch(fr.train, fr.max_depth)
       THEN ReturnLeaf(fr)
       ELSE LET bs == find_best_split(fr.train, fr.g, fr.h, reg_lambda) IN
            IF StopOnGain(bs[3])
            THEN ReturnLeaf(fr)
            ELSE IF bs[2] = None
            THEN Raise("TypeError")      \* train[:, feature] < None
            ELSE LET index == SplitIndex(fr.train, bs[1], bs[2]) IN
                 /\ stack' = Append(
                        [stack EXCEPT ![Len(stack)] =
                            [fr EXCEPT !.at = "left", !.feature = bs[1],
                                       !.threshold = bs[2], !.gain = bs[3],
                                       !.index = index]],
                        LeftCall(fr, index))
                 /\ UNCHANGED <<ret, pc, error>>
    /\ UNCHANGED <<loss, max_depth, min_sample_split, reg_lambda, gamma,
                   learning_rate, n_estimators, estimators, score_start, train,
                   target, score, i, history, prediction, args, result>>

\* the left child's call has returned: line 292 calls for the right child
ReturnLeft ==
    /\ pc = "tree"
    /\ stack # <<>>
    /\ Top.at = "left"
    /\ ret # <<>>
    /\ stack' = Append(
           [stack EXCEPT ![Len(stack)] =
               [Top EXCEPT !.at = "right", !.left_child = ret[1]]],
           RightCall(Top, Top.index))
    /\ ret' = <<>>
    /\ UNCHANGED <<loss, max_depth, min_sample_split, reg_lambda, gamma,
                   learning_rate, n_estimators, estimators, score_start, pc,
                   train, target, score, i, history, error, prediction, args,
                   result>>

\* the right child's call has returned: line 293 returns the internal node
ReturnRight ==
    /\ pc = "tree"
    /\ stack # <<>>
    /\ Top.at = "right"
    /\ ret # <<>>
    /\ ret' = <<TreeNode(FALSE, None, Top.feature, Top.threshold,
                         Top.left_child, ret[1])>>
    /\ stack' = Pop
    /\ UNCHANGED <<loss, max_depth, min_sample_split, reg_lambda, gamma,
                   learning_rate, n_estimators, estimators, score_start, pc,
                   train, target, score, i, history, error, prediction, args,
                   result>>

-----------------------------------------------------------------------------
(* GBDT. *)

Losses == {"mse", "log"}
MinSampleSplits == {1, 3}
Gammas == {0, 1}
LearningRates == {<<1, 2>>}
TargetValues == {0, 2}

Samples == FeatureValues \X FeatureValues

\* what a later call of fit on the same object is given: no rows, or two
\* rows of different targets of which the first is fixed
RefitInputs ==
    {[train |-> <<>>, target |-> <<>>]} \cup
    {[train |-> <<<<0, 0>>, x>>, target |-> <<0, 2>>] : x \in Samples}

\* target.mean(): nan on an empty array
Mean(v) == RDiv(Sum(Rs(v)), R(Len(v)))

NoArgs == [train |-> <<>>, g |-> <<>>, h |-> <<>>, reg_lambda |-> 0]

Init ==
    /\ loss \in Losses
    /\ max_depth \in 0..MaxDepth
    /\ min_sample_split \in MinSampleSplits
    /\ reg_lambda \in RegLambdas
    /\ gamma \in Gammas
    /\ learning_rate \in LearningRates
    /\ n_estimators \in 1..MaxEstimators
    /\ estimators = <<>>
    /\ score_start = None
    /\ pc = "idle"
    /\ train = <<>>
    /\ target = <<>>
    /\ score = <<>>
    /\ i = 0
    /\ history = <<>>
    /\ stack = <<>>
    /\ ret = <<>>
    /\ error = "none"
    /\ prediction = <<>>
    /\ args = NoArgs
    /\ result = NoResult

\* GBDT.fit, lines 161-165
Fit(tr, tg) ==
    /\ pc \in {"idle", "done", "failed"}
    /\ estimators' = <<>>
    /\ loss' = IF loss = "mse" THEN "mse()" ELSE loss
    /\ score_start' = Mean(tg)
    /\ score' = [k \in 1..Len(tr) |-> RMul(R(1), Mean(tg))]
    /\ train' = tr
    /\ target' = tg
    /\ i' = 0
    /\ history' = <<>>
    /\ stack' = <<>>
    /\ ret' = <<>>
    /\ error' = "none"
    /\ prediction' = <<>>
    /\ pc' = "round"
    /\ UNCHANGED <<max_depth, min_sample_split, reg_lambda, gamma,
                   learning_rate, n_estimators, args, result>>

\* GBDT.fit, lines 166-169, to the entry of construct_tree (line 234)
RoundStart ==
    /\ pc = "round"
    /\ i < n_estimators
    /\ IF IsLossObject(loss)
       THEN /\ history' = Append(history,
                     [g |-> mse_g(target, score), h |-> mse_h(target, score)])
            /\ stack' = <<Frame(train, mse_g(target, score), mse_h(target, score),
                                max_depth, [k \in 1..Len(train) |-> k])>>
            /\ pc' = "tree"
            /\ ret' = <<>>
            /\ UNCHANGED error
       ELSE /\ Raise("AttributeError")   \* a str has no attribute g
            /\ UNCHANGED history
    /\ UNCHANGED <<loss, max_depth, min_sample_split, reg_lambda, gamma,
                   learning_rate, n_estimators, estimators, score_start, train,
                   target, score, i, prediction, args, result>>

\* Tree.fit returns (line 235); GBDT.fit, lines 170-171
RoundEnd ==
    /\ pc = "tree"
    /\ stack = <<>>
    /\ ret # <<>>
    /\ estimators' = Append(estimators, ret[1])
    /\ score' = [k \in 1..Len(score) |->
                    RAdd(score[k], RMul(learning_rate, tree_predict(ret[1], train)[k]))]
    /\ i' = i + 1
    /\ ret' = <<>>
    /\ pc' = "round"
    /\ UNCHANGED <<loss, max_depth, min_sample_split, reg_lambda, gamma,
                   learning_rate, n_estimators, score_start, train, target,
                   history, stack, error, prediction, args, result>>

\* GBDT.fit, line 172
FitReturn ==
    /\ pc = "round"
    /\ i >= n_estimators
    /\ pc' = "done"
    /\ UNCHANGED <<loss, max_depth, min_sample_split, reg_lambda, gamma,
                   learning_rate, n_estimators, estimators, score_start, train,
                   target, score, i, history, stack, ret, error, prediction,
                   args, result>>

\* the loop of GBDT.predict, lines 176-177
RECURSIVE PredictLoop(_, _, _)
PredictLoop(test, k, sc) ==
    IF k > n_estimators THEN sc
    ELSE PredictLoop(test, k + 1,
            [r \in 1..Len(sc) |->
                RAdd(sc[r], RMul(learning_rate, tree_predict(estimators[k], test)[r]))])

\* GBDT.predict on a fitted ensemble
Predict(test) ==
    /\ pc = "done"
    /\ prediction' = <<mse_link(PredictLoop(test, 1,
                          [r \in 1..Len(test) |-> RMul(R(1), score_start)]))>>
    /\ UNCHANGED <<loss, max_depth, min_sample_split, reg_lambda, gamma,
                   learning_rate, n_estimators, estimators, score_start, pc,
                   train, target, score, i, history, stack, ret, error, args,
                   result>>

Next ==
    \/ /\ pc = "idle"
       /\ \E n \in 0..MaxRows :
             \E x \in Seqs(Samples, n), y \in Seqs(TargetValues, n) : Fit(x, y)
    \/ /\ pc # "idle"
       /\ \E in \in RefitInputs : Fit(in.train, in.target)
    \/ RoundStart
    \/ ConstructTree
    \/ ReturnLeft
    \/ ReturnRight
    \/ RoundEnd
    \/ FitReturn
    \/ Predict(train)

Spec == Init /\ [][Next]_vars


-----------------------------------------------------------------------------
(* The split functions called directly: on one column, and on a matrix. *)

InitGBDTIdle ==
    /\ loss = "mse"
    /\ max_depth = 0
    /\ min_sample_split = 1
    /\ reg_lambda = 0
    /\ gamma = 0
    /\ learning_rate = <<1, 2>>
    /\ n_estimators = 1
    /\ estimators = <<>>
    /\ score_start = None
    /\ pc = "idle"
    /\ train = <<>>
    /\ target = <<>>
    /\ score = <<>>
    /\ i = 0
    /\ history = <<>>
    /\ stack = <<>>
    /\ ret = <<>>
    /\ error = "none"
    /\ prediction = <<>>

InitColumn ==
    /\ InitGBDTIdle
    /\ \E n \in 1..MaxLen :
         \E c \in Seqs(ColumnValues, n), gs \in Seqs(GValues, n),
            hs \in Seqs(HValues, n), l \in RegLambdas :
                args = ColumnInput(c, gs, hs, l)
    /\ result = NoResult

NextColumn ==
    \/ \E t \in Thresholds(Column(args.train, 0)) : CallCalculateGain(0, t)
    \/ CallFindThreshold(0)

SpecColumn == InitColumn /\ [][NextColumn]_vars

InitMatrix ==
    /\ InitGBDTIdle
    /\ \E n \in 1..MaxLen :
         \E x \in Seqs(ColumnValues \X FeatureValues, n), gs \in Seqs(GValues, n),
            l \in RegLambdas :
                args = MatrixInput(x, gs, l)
    /\ result = NoResult

NextMatrix == CallFindBestSplit

SpecMatrix == InitMatrix /\ [][NextMatrix]_vars


-----------------------------------------------------------------------------
(* Properties of the split functions. *)

\* the column a direct call worked on
CalledColumn == Column(args.train, result.feature)

\* the unsplit node's loss, and the gain of splitting the called column at t
WholeLoss == leaf_loss(args.g, args.h, args.reg_lambda)
GainAt(column, t) ==
    calculate_gain(WholeLoss, column, args.g, args.h, t, args.reg_lambda)

StrictlyBetweenObserved(column, t) ==
    \E lo, hi \in Range(column) : RLt(R(lo), t) /\ RLt(t, R(hi))

\* C1, as stated: for every column, every g and h of its length, every
\* reg_lambda >= 0 and every threshold strictly between two observed values,
\* calculate_gain(leaf_loss(g, h, reg_lambda), ...) is >= 0.
C1_GainNonNegative ==
    (result.op = "calculate_gain"
        /\ StrictlyBetweenObserved(CalledColumn, result.threshold))
    => RLe(R(0), result.gain)

\* C1, amended: with reg_lambda = 0 and every hessian positive, the gain of a
\* threshold strictly between two observed values is >= 0.
C1_GainNonNegativeUnregularized ==
    (result.op = "calculate_gain"
        /\ StrictlyBetweenObserved(CalledColumn, result.threshold)
        /\ args.reg_lambda = 0
        /\ \A k \in 1..Len(args.h) : RLt(R(0), args.h[k]))
    => RLe(R(0), result.gain)

\* an unregularized split of unequal hessians that gains strictly
C1_Witness ==
    /\ result.op = "calculate_gain"
    /\ StrictlyBetweenObserved(CalledColumn, result.threshold)
    /\ args.reg_lambda = 0
    /\ Len(args.h) = 3
    /\ args.h[1] # args.h[3]
    /\ RLt(R(0), result.gain)

\* the midpoints of consecutive distinct values of a column
Midpoints(column) ==
    {t \in {Rat(a + b, 2) : a, b \in Range(column)} :
        \E a, b \in Range(column) :
            /\ a < b
            /\ t = Rat(a + b, 2)
            /\ ~ \E c \in Range(column) : a < c /\ c < b}

\* the gain of each midpoint of the column
MidpointGains(column) == [t \in Midpoints(column) |-> GainAt(column, t)]

\* the midpoints whose gain no other midpoint's gain exceeds
BestMidpoints(column) ==
    LET gains == MidpointGains(column)
    IN  {t \in DOMAIN gains : \A u \in DOMAIN gains : RLe(gains[u], gains[t])}

\* C8: find_threshold returns the smallest midpoint of consecutive distinct
\* column values among those of maximal gain, with that gain (computed
\* against the whole column's leaf_loss), when the maximal gain is > 0, and
\* (None, 0) when no midpoint's gain exceeds 0.
C8_FindThresholdIsFirstMaximum ==
    result.op = "find_threshold" =>
        LET gains == MidpointGains(CalledColumn)
            best  == BestMidpoints(CalledColumn)
        IN  IF \E t \in DOMAIN gains : RLt(R(0), gains[t])
            THEN /\ result.threshold \in best
                 /\ \A u \in best : RLe(result.threshold, u)
                 /\ result.gain = gains[result.threshold]
            ELSE /\ result.threshold = None
                 /\ result.gain = R(0)

\* two midpoints tie at a positive maximal gain and the smaller is returned
C8_Witness ==
    /\ result.op = "find_threshold"
    /\ Cardinality(BestMidpoints(CalledColumn)) = 2
    /\ RLt(R(0), result.gain)
    /\ \A u \in BestMidpoints(CalledColumn) : RLe(result.threshold, u)

\* each feature's find_threshold result
FeatureBest ==
    [f \in 0..(NumFeatures(args.train) - 1) |->
        find_threshold(args.g, args.h, Column(args.train, f), args.reg_lambda)]

\* the features whose gain no other feature's gain exceeds
MaxGainFeatures ==
    LET best == FeatureBest
    IN  {f \in DOMAIN best : \A e \in DOMAIN best : RLe(best[e][2], best[f][2])}

\* C5: find_best_split returns the lowest feature index among the features of
\* maximal find_threshold gain, with that feature's threshold and gain, when
\* the maximal gain is > 0, and (0, None, 0) when no feature's gain is > 0.
C5_BestSplitIsFirstMaximum ==
    result.op = "find_best_split" =>
        LET best == FeatureBest
            top  == MaxGainFeatures
        IN  IF \E f \in DOMAIN best : RLt(R(0), best[f][2])
            THEN /\ result.feature \in top
                 /\ \A f \in top : result.feature <= f
                 /\ result.threshold = best[result.feature][1]
                 /\ result.gain = best[result.feature][2]
            ELSE /\ result.feature = 0
                 /\ result.threshold = None
                 /\ result.gain = R(0)

\* both features tie at a positive gain, with different thresholds, and
\* feature 0 is returned
C5_Witness ==
    /\ result.op = "find_best_split"
    /\ MaxGainFeatures = {0, 1}
    /\ RLt(R(0), result.gain)
    /\ FeatureBest[0][1] # FeatureBest[1][1]
    /\ result.feature = 0


-----------------------------------------------------------------------------
(* Properties of the trees and of the boosting loop. *)

RECURSIVE Height(_)
Height(node) ==
    IF node.is_leaf THEN 0
    ELSE LET l == Height(node.left_child)
             r == Height(node.right_child)
         IN  1 + (IF l < r THEN r ELSE l)

\* C2: no leaf of a fitted tree lies more than max_depth edges below the
\* root; every level of construct_tree has exactly one less remaining depth
\* than the level above it, and none goes below 0.
C2_DepthBound ==
    /\ \A k \in 1..Len(estimators) : Height(estimators[k]) <= max_depth
    /\ \A k \in 1..Len(stack) :
          /\ stack[k].max_depth = max_depth - (k - 1)
          /\ stack[k].max_depth >= 0
    /\ ret # <<>> => Height(ret[1]) <= max_depth - Len(stack)

\* a fitted tree whose deepest leaf lies exactly max_depth = 2 edges down
C2_Witness ==
    /\ pc = "done"
    /\ max_depth = 2
    /\ \E k \in 1..Len(estimators) : Height(estimators[k]) = 2

\* the positions of v, in order, that lie in P
AtPositions(v, P) == Select(v, [j \in 1..Len(v) |-> j \in P])

\* the gradient and hessian handed to the tree being built
RoundG == history[Len(history)].g
RoundH == history[Len(history)].h

\* C3: where construct_tree has gone on to split (a frame past line 290), the
\* threshold is not None, the gain exceeds gamma, at least one sample of the
\* frame is below the threshold in the split feature and at least one is
\* not; the left child is called on exactly the samples below, the right
\* child on exactly the others, each with the g and h of its own samples.
C3_SplitIsProperPartition ==
    /\ error # "TypeError"
    /\ \A k \in 1..Len(stack) :
          LET fr == stack[k] IN
          /\ fr.train = [j \in 1..Len(fr.rows) |-> train[fr.rows[j]]]
          /\ fr.g = [j \in 1..Len(fr.rows) |-> RoundG[fr.rows[j]]]
          /\ fr.h = [j \in 1..Len(fr.rows) |-> RoundH[fr.rows[j]]]
          /\ fr.at \in {"left", "right"} =>
                LET below == {j \in 1..Len(fr.train) :
                                RLt(R(fr.train[j][fr.feature + 1]), fr.threshold)}
                    others == (1..Len(fr.train)) \ below
                    part == IF fr.at = "left" THEN below ELSE others
                IN  /\ fr.threshold # None
                    /\ RLt(R(gamma), fr.gain)
                    /\ below # {}
                    /\ others # {}
                    /\ k < Len(stack) =>
                          /\ stack[k + 1].rows = AtPositions(fr.rows, part)
                          /\ stack[k + 1].train = AtPositions(fr.train, part)
                          /\ stack[k + 1].g = AtPositions(fr.g, part)
                          /\ stack[k + 1].h = AtPositions(fr.h, part)

\* the right child of a three-sample root is being built, in the second round
C3_Witness ==
    /\ Len(stack) = 2
    /\ stack[1].at = "right"
    /\ Len(stack[1].train) = 3
    /\ Len(stack[2].train) = 2
    /\ i = 1

TargetsIdentical == \A j, k \in 1..Len(target) : target[j] = target[k]

\* C4: when all training targets are identical, in every round the running
\* score is the same for all samples, every split search that is reached
\* returns (0, None, 0), no call of construct_tree goes on to split, and every
\* fitted tree is a single leaf.
C4_ConstantTargetSingleLeaves ==
    (pc # "idle" /\ TargetsIdentical) =>
        /\ error # "TypeError"
        /\ \A j, k \in 1..Len(score) : score[j] = score[k]
        /\ \A k \in 1..Len(stack) :
              /\ stack[k].at = "call"
              /\ ~(stack[k].max_depth = 0 \/ Len(stack[k].train) < min_sample_split)
                    => find_best_split(stack[k].train, stack[k].g, stack[k].h,
                                       reg_lambda) = <<0, None, R(0)>>
        /\ ret # <<>> => ret[1].is_leaf
        /\ \A k \in 1..Len(estimators) : estimators[k].is_leaf

\* two rounds done on three samples of one target value and different
\* features, with room to split (depth 2, min_sample_split 1, gamma 0)
C4_Witness ==
    /\ pc = "done"
    /\ TargetsIdentical
    /\ Len(train) = 3
    /\ train[1] # train[2]
    /\ train[2][1] # train[3][1]
    /\ target[1] = 2
    /\ max_depth = 2
    /\ min_sample_split = 1
    /\ gamma = 0
    /\ Len(estimators) = 2

\* node is what the stopping conditions prescribe for the samples rows (of the
\* fit's matrix) with depth levels left, under the round's g and h
RECURSIVE Conforms(_, _, _, _, _)
Conforms(node, rows, depth, g, h) ==
    LET tr == [j \in 1..Len(rows) |-> train[rows[j]]]
        gs == [j \in 1..Len(rows) |-> g[rows[j]]]
        hs == [j \in 1..Len(rows) |-> h[rows[j]]]
        early == depth = 0 \/ Len(rows) < min_sample_split
        bs == find_best_split(tr, gs, hs, reg_lambda)
    IN  IF node.is_leaf
        THEN /\ early \/ RLe(bs[3], R(gamma))
             /\ node.score = leaf_score(gs, hs, reg_lambda)
             /\ node.left_child = None
             /\ node.right_child = None
        ELSE /\ ~early
             /\ RLt(R(gamma), bs[3])
             /\ node.split_feature = bs[1]
             /\ node.split_threshold = bs[2]
             /\ LET below == {j \in 1..Len(rows) :
                                RLt(R(tr[j][bs[1] + 1]), bs[2])}
                IN  /\ Conforms(node.left_child, AtPositions(rows, below),
                                depth - 1, g, h)
                    /\ Conforms(node.right_child,
                                AtPositions(rows, (1..Len(rows)) \ below),
                                depth - 1, g, h)

RECURSIVE ScoreAfter(_)
ScoreAfter(k) ==
    IF k = 0 THEN [r \in 1..Len(train) |-> score_start]
    ELSE LET before == ScoreAfter(k - 1)
             p == tree_predict(estimators[k], train)
         IN  [r \in 1..Len(train) |-> RAdd(before[r], RMul(learning_rate, p[r]))]

\* the order of the rounds while fit runs and once it has returned
BoostingOrder ==
    /\ pc = "round" => Len(estimators) = i /\ Len(history) = i
    /\ pc = "tree" => Len(estimators) = i /\ Len(history) = i + 1
    /\ pc \in {"round", "tree", "done"} =>
          /\ i <= n_estimators
          /\ \A k \in 1..Len(history) :
                /\ history[k].g = mse_g(target, ScoreAfter(k - 1))
                /\ history[k].h = mse_h(target, ScoreAfter(k - 1))
          /\ score = ScoreAfter(Len(estimators))
    /\ (pc = "done" /\ prediction # <<>>) => prediction[1] = mse_link(score)

\* C10: GBDT.fit runs exactly n_estimators rounds, each tree fitted on the
\* gradient and hessian of the running score of the trees before it; once fit
\* has ended the ensemble holds exactly n_estimators trees, and predict on the
\* training matrix returns the link of fit's final running score.
C10_FitRunsAllRounds ==
    /\ BoostingOrder
    /\ pc \in {"done", "failed"} =>
          /\ Len(estimators) = n_estimators
          /\ Len(history) = n_estimators

\* the same for the calls of fit that return
FitRunsAllRoundsWhenItReturns ==
    /\ BoostingOrder
    /\ pc = "done" =>
          /\ Len(estimators) = n_estimators
          /\ Len(history) = n_estimators

\* C6: a GBDT configured with loss "log" trains: fit ends without an error,
\* with n_estimators trees.
C6_LogLossTrains ==
    (loss = "log" /\ pc \in {"done", "failed"}) =>
        /\ pc = "done"
        /\ error = "none"
        /\ Len(estimators) = n_estimators

\* C7: fit on a matrix of zero rows (with a usable loss) enters no call of
\* construct_tree, appends no estimator, and ends with an EmptyInput error.
C7_EmptyInputRejected ==
    (pc # "idle" /\ Len(train) = 0 /\ IsLossObject(loss)) =>
        /\ stack = <<>>
        /\ ret = <<>>
        /\ estimators = <<>>
        /\ pc \in {"done", "failed"} => error = "EmptyInput"


=============================================================================
